---- MODULE Spec2Model ----
(***************************************************************************)
(* Generalized cross-correlation (TensorGCC).                              *)
(*                                                                         *)
(* tensorgcc/gcc.py : gcc(x0, x1, max_delay, weighting, scale)             *)
(* gcc/gcc.py       : gcc(waveforms, max_delay, weighting, scale), the     *)
(*                    older implementation on a [batch, channel, samples]  *)
(*                    tensor                                               *)
(*                                                                         *)
(* A tensor is [rank, rows]: rows is the sequence of its signals (one per  *)
(* batch element), each a sequence of integer samples.  Sequences are      *)
(* 1-based here: the 0-based index k of the code is position k+1.          *)
(*                                                                         *)
(* Arithmetic is exact.  The mean of a signal is a fraction, so the model  *)
(* carries numerators: the DC-removed signal is kept times its length, and *)
(* a returned sample is  num / (unit * den)  with unit = N0 * N1 and den   *)
(* the denominator the scaling stage divides by.  The inverse transform of *)
(* conj(rfft(x0)) * rfft(x1) at length nfft is the circular                *)
(* cross-correlation of the two zero-padded signals, which is what the     *)
(* model computes.  The samples of a PHAT-weighted transform are not       *)
(* rational; for them the model carries only the raw index of every        *)
(* returned sample (src) and its denominator (den), and num is empty.      *)
(***************************************************************************)
EXTENDS Integers, Sequences, FiniteSets

VARIABLES x0, x1, x0static, max_delay, weighting, scale, call, result

vars == <<x0, x1, x0static, max_delay, weighting, scale, call, result>>

\* ---------------------------------------------------------------- bounds
MaxN == 4
MaxBatch == 2
MaxDelay == 8
Samples == {-2, -1, 0, 1, 2}

\* ---------------------------------------------------------------- helpers
Abs(a) == IF a < 0 THEN -a ELSE a

Min(a, b) == IF a < b THEN a ELSE b

Max(a, b) == IF a < b THEN b ELSE a

RECURSIVE SumSeq(_)
SumSeq(s) == IF s = <<>> THEN 0 ELSE Head(s) + SumSeq(Tail(s))

\* ------------------------------------------------- next_power_of_two
\* math.frexp(n) for an integer n >= 1: n = mantissa * 2^res, mantissa in [0.5, 1)
RECURSIVE FrexpFrom(_, _)
FrexpFrom(n, e) == IF n < 2 ^ e THEN e ELSE FrexpFrom(n, e + 1)

frexp_res(n) == FrexpFrom(n, 0)

\* mantissa == 0.5  <=>  n / 2^res = 1/2
mantissa_is_half(n) == 2 * n = 2 ^ frexp_res(n)

\* variant: the exponent of frexp kept as it is
next_power_of_two_keep(n) == frexp_res(n)

next_power_of_two(n) == IF mantissa_is_half(n) THEN frexp_res(n) - 1 ELSE frexp_res(n)

\* ------------------------------------------------------------ gcc lengths
\* m = 2 * num_samples - 1
corr_m(num_samples) == 2 * num_samples - 1

\* max_delay is <<>> when omitted and <<d>> when given
ncorr_of(m, md) == IF md = <<>> THEN m ELSE Min(m, md[1])

nfft_of(m) == 2 ^ next_power_of_two(m)

\* ---------------------------------------------------------------- DC removal
\* x - mean(x), times Len(x)
remove_dc(x) == [n \in 1..Len(x) |-> Len(x) * x[n] - SumSeq(x)]

\* rfft(x, [nfft]) crops x to nfft samples or pads it with zeros
fft_input(x, nfft) == [n \in 1..nfft |-> IF n <= Len(x) THEN x[n] ELSE 0]

\* irfft(rfft(b) * conj(rfft(a))): r[k] = sum_n a[n] * b[(n + k) mod nfft]
RECURSIVE corr_sum(_, _, _, _, _)
corr_sum(a, b, nfft, k, n) ==
    IF n = nfft THEN 0
    ELSE a[n + 1] * b[((n + k) % nfft) + 1] + corr_sum(a, b, nfft, k, n + 1)

ifft_R01(a, b, nfft) ==
    LET pa == fft_input(a, nfft)
        pb == fft_input(b, nfft)
    IN  [i \in 1..nfft |-> corr_sum(pa, pb, nfft, i - 1, 0)]

\* -------------------------------------------------------------------- _shift
\* variant: the two halves concatenated the other way round
shift_swapped(x, N, ncorr) == SubSeq(x, 1, ncorr) \o SubSeq(x, N - ncorr + 1, N - 1)

\* variant: ncorr samples in all, the lags around zero
shift_symmetric_trim(x, N, ncorr) ==
    SubSeq(x, N - (ncorr \div 2) + 1, N) \o SubSeq(x, 1, ncorr - (ncorr \div 2))

\* left_x = x[..., :ncorr]; right_x = x[..., N - ncorr : N - 1]; concat([right_x, left_x])
_shift(x, N, ncorr) == SubSeq(x, N - ncorr + 1, N - 1) \o SubSeq(x, 1, ncorr)

\* the 0-based raw indices 0..nfft-1 of the inverse transform
raw_indices(nfft) == [i \in 1..nfft |-> i - 1]

\* -------------------------------------------------------------------- _scale
\* L = int((gcc_len - 1) / 2)
scale_L(gcc_len) == (gcc_len - 1) \div 2

\* den = m - np.abs(np.arange(-L, L + 1)); den[den <= 0] = 1
unbiased_den(m, L) ==
    [j \in 1..(2 * L + 1) |-> IF m - Abs(j - 1 - L) <= 0 THEN 1 ELSE m - Abs(j - 1 - L)]

\* np.pad(den, (0, n), mode="edge")
pad_edge(den, n) == den \o [j \in 1..n |-> den[Len(den)]]

\* tensorgcc/gcc.py: the denominator of every position (1 where nothing is divided)
scale_den(m, gcc_len, sc) ==
    IF sc = "biased" THEN [j \in 1..gcc_len |-> m]
    ELSE IF sc = "unbiased"
         THEN pad_edge(unbiased_den(m, scale_L(gcc_len)),
                       gcc_len - Len(unbiased_den(m, scale_L(gcc_len))))
         ELSE [j \in 1..gcc_len |-> 1]

\* gcc/gcc.py: the same without the padding
legacy_scale_den(m, gcc_len, sc) ==
    IF sc = "biased" THEN [j \in 1..gcc_len |-> m]
    ELSE IF sc = "unbiased" THEN unbiased_den(m, scale_L(gcc_len))
         ELSE [j \in 1..gcc_len |-> 1]

\* ------------------------------------------------------------------- results
Failure(status) ==
    [status |-> status, rank |-> 0, nfft |-> 0, ncorr |-> 0, unit |-> 0,
     src |-> <<>>, den |-> <<>>, num |-> <<>>]

\* assert N > ncorr failed: the lengths it was called with
AssertionFailure(nfft, ncorr) ==
    [status |-> "AssertionError", rank |-> 0, nfft |-> nfft, ncorr |-> ncorr, unit |-> 0,
     src |-> <<>>, den |-> <<>>, num |-> <<>>]

\* batch broadcasting of X1 * X0
batch_ok(a, b) == Len(a.rows) = Len(b.rows) \/ Len(a.rows) = 1 \/ Len(b.rows) = 1

batch_row(t, r) == IF Len(t.rows) = 1 THEN t.rows[1] ELSE t.rows[r]

\* the core _gcc(x0, x1, nfft, ncorr, weighting, scale) of both files; they differ
\* in _scale alone (padded selects the _scale of tensorgcc/gcc.py)
_gcc(a, b, nfft, ncorr, w, sc, padded) ==
    LET src == _shift(raw_indices(nfft), nfft, ncorr)
        m == Len(a.rows[1])
        den == IF padded THEN scale_den(m, Len(src), sc)
               ELSE legacy_scale_den(m, Len(src), sc)
    IN  IF Len(den) # Len(src) THEN Failure("BroadcastError")
        ELSE [status |-> "ok",
              rank |-> Max(a.rank, b.rank),
              nfft |-> nfft,
              ncorr |-> ncorr,
              unit |-> Len(a.rows[1]) * Len(b.rows[1]),
              src |-> src,
              den |-> den,
              num |-> IF w = "PHAT" THEN <<>>
                      ELSE [r \in 1..Max(Len(a.rows), Len(b.rows)) |->
                              _shift(ifft_R01(remove_dc(batch_row(a, r)),
                                              remove_dc(batch_row(b, r)), nfft),
                                     nfft, ncorr)]]

\* if weighting not in [None, "PHAT"]: raise ValueError
weighting_rejected(w) == w \notin {"None", "PHAT"}

\* if scale not in [None, "biased", "unbiased"]: raise ValueError
scale_rejected(sc) == sc \notin {"None", "biased", "unbiased"}

\* tensorgcc/gcc.py gcc(x0, x1, max_delay, weighting, scale)
gcc(a, b, static, md, w, sc) ==
    IF weighting_rejected(w) THEN Failure("ValueError_weighting")
    ELSE IF scale_rejected(sc) THEN Failure("ValueError_scale")
    ELSE IF a.rank \notin {1, 2} \/ b.rank \notin {1, 2} THEN Failure("RankError")
    ELSE IF ~static THEN Failure("ValueError_static")
    ELSE LET num_samples == Len(a.rows[1])
             m == corr_m(num_samples)
             ncorr == ncorr_of(m, md)
             nfft == nfft_of(m)
         IN  IF ~batch_ok(a, b) THEN Failure("BroadcastError")
             ELSE IF ~(nfft > ncorr) THEN AssertionFailure(nfft, ncorr)
             ELSE _gcc(a, b, nfft, ncorr, w, sc, TRUE)

\* gcc/gcc.py gcc(waveforms, max_delay, weighting, scale); waveforms holds the two
\* channels a and b, so its rank is theirs plus one.  With ndims = 2 the channels
\* are rank-1 slices and reduce_mean(x0, 1) has no axis 1 to reduce.
legacy_gcc(a, b, static, md, w, sc) ==
    LET ndims == a.rank + 1
    IN  IF ndims < 2 THEN Failure("RankError")
        ELSE IF ndims \notin {2, 3} THEN Failure("None")
        ELSE IF ~static THEN Failure("TypeError")
        ELSE LET m == corr_m(Len(a.rows[1]))
                 ncorr == ncorr_of(m, md)
                 nfft == nfft_of(m)
             IN  IF ndims = 2 THEN Failure("ReductionAxisError")
                 ELSE IF ~(nfft > ncorr) THEN AssertionFailure(nfft, ncorr)
                 ELSE _gcc(a, b, nfft, ncorr, w, sc, FALSE)

\* --------------------------------------------------------------------- inputs
Signals(n) == [1..n -> Samples]

Zeros(n) == [j \in 1..n |-> 0]

\* tensors of every rank 0..3 (a rank-0 tensor has no sample axis)
ZeroTensors ==
    {[rank |-> 0, rows |-> <<>>]}
    \cup {[rank |-> 1, rows |-> <<Zeros(n)>>] : n \in 1..MaxN}
    \cup {[rank |-> 2, rows |-> [r \in 1..b |-> Zeros(n)]] : b \in 1..MaxBatch, n \in 1..MaxN}
    \cup {[rank |-> 3, rows |-> <<Zeros(n), Zeros(n)>>] : n \in 1..MaxN}

Delays == {<<>>} \cup {<<d>> : d \in 1..MaxDelay}

Weightings == {"None", "PHAT", "bogus"}

Scales == {"None", "biased", "unbiased", "bogus"}

NoResult == Failure("not called")

\* every shape and every option, on silent signals
InitShapes ==
    /\ x0 \in ZeroTensors
    /\ x1 \in ZeroTensors
    /\ x0static \in BOOLEAN
    /\ max_delay \in Delays
    /\ weighting \in Weightings
    /\ scale \in Scales

\* x1 a replica of x0 delayed by d samples (d = 0: the signal itself)
Delayed(s, d) == [j \in 1..Len(s) |-> IF j - d >= 1 THEN s[j - d] ELSE 0]

\* every single signal against each of its delayed replicas, unweighted and unscaled
InitValues ==
    /\ \E n \in 1..MaxN :
          \E s \in Signals(n) :
             \E d \in 0..(n - 1) :
                /\ x0 = [rank |-> 1, rows |-> <<s>>]
                /\ x1 = [rank |-> 1, rows |-> <<Delayed(s, d)>>]
    /\ x0static = TRUE
    /\ max_delay \in Delays
    /\ weighting = "None"
    /\ scale = "None"

Init ==
    /\ InitShapes \/ InitValues
    /\ call = "none"
    /\ result = NoResult

Gcc ==
    /\ call = "none"
    /\ call' = "gcc"
    /\ result' = gcc(x0, x1, x0static, max_delay, weighting, scale)
    /\ UNCHANGED <<x0, x1, x0static, max_delay, weighting, scale>>

\* the two channels of one waveforms tensor have one shape
LegacyGcc ==
    /\ call = "none"
    /\ x0.rank = x1.rank
    /\ Len(x0.rows) = Len(x1.rows)
    /\ x0.rows # <<>> => Len(x0.rows[1]) = Len(x1.rows[1])
    /\ call' = "legacy"
    /\ result' = legacy_gcc(x0, x1, x0static, max_delay, weighting, scale)
    /\ UNCHANGED <<x0, x1, x0static, max_delay, weighting, scale>>

Next == Gcc \/ LegacyGcc

Spec == Init /\ [][Next]_vars

\* ------------------------------------------------------------- properties
\* the sample counts of the two inputs (0 for a tensor without a sample axis)
N0 == IF x0.rows = <<>> THEN 0 ELSE Len(x0.rows[1])

N1 == IF x1.rows = <<>> THEN 0 ELSE Len(x1.rows[1])

Returned == call = "gcc" /\ result.status = "ok"

\* a signal pair as the interface asks for it: one sample count
SameCount == N1 = N0

Plain == weighting = "None" /\ scale = "None"

IsPowerOfTwo(n) == \E e \in 0..n : n = 2 ^ e

\* the lag of raw index k of an nfft-long inverse transform
LagOf(k, nfft) == IF 2 * k < nfft THEN k ELSE k - nfft

\* position (1-based) of the center element of the returned sequence
Center == (Len(result.src) + 1) \div 2

\* direct linear cross-correlation c[l] = sum_n a[n] * b[n + l]
RECURSIVE LinCorrFrom(_, _, _, _)
LinCorrFrom(a, b, l, n) ==
    IF n > Len(a) THEN 0
    ELSE (IF n + l >= 1 /\ n + l <= Len(b) THEN a[n] * b[n + l] ELSE 0)
         + LinCorrFrom(a, b, l, n + 1)

LinCorr(a, b, l) == LinCorrFrom(a, b, l, 1)

\* C1: with weighting=None and scale=None and N >= 2, the returned sequence has
\* length 2N-1 when max_delay is omitted and min(2N-1, max_delay) otherwise.
C1_OutputLength ==
    (Returned /\ Plain /\ SameCount /\ N0 >= 2)
        => /\ Len(result.src) = ncorr_of(2 * N0 - 1, max_delay)
           /\ \A r \in DOMAIN result.num :
                 Len(result.num[r]) = ncorr_of(2 * N0 - 1, max_delay)

\* C2: with scale='unbiased', every returned position is divided by
\* max(1, num_samples - |l|), l the lag of the raw sample placed at that position.
C2_UnbiasedDenominatorFollowsLag ==
    (Returned /\ scale = "unbiased" /\ SameCount /\ N0 >= 2)
        => \A i \in DOMAIN result.src :
              result.den[i] = Max(1, N0 - Abs(LagOf(result.src[i], result.nfft)))

\* C3: gcc returns no correlation sequence when x0 and x1, of rank 1 or 2, have
\* different sample counts (it fails with a shape error instead).
C3_MismatchedCountsReturnNothing ==
    (call = "gcc" /\ x0.rank \in {1, 2} /\ x1.rank \in {1, 2} /\ N0 # N1)
        => result.status # "ok"

\* C4: nfft > ncorr on every call of gcc, for every N >= 1 and every max_delay:
\* the assertion of _shift never fails.
C4_ShiftAssertionNeverFails ==
    call = "gcc" => result.status # "AssertionError"

\* C5: for every N >= 1, nfft = 2 ** next_power_of_two(2N-1) is a power of two,
\* is >= 2N-1 and is the smallest such power (below 2*(2N-1) when 2N-1 > 1).
C5_NfftSmallestPowerOfTwo ==
    (call # "none" /\ result.status \in {"ok", "AssertionError"})
        => /\ IsPowerOfTwo(result.nfft)
           /\ result.nfft >= 2 * N0 - 1
           /\ \A q \in 1..(result.nfft - 1) :
                 (IsPowerOfTwo(q) /\ q >= 2 * N0 - 1) => FALSE
           /\ (2 * N0 - 1 > 1) => result.nfft < 2 * (2 * N0 - 1)

C5_Witness ==
    /\ Returned
    /\ SameCount
    /\ N0 = 3
    /\ result.nfft = 8

\* C6: gcc(x, x) with weighting=None, scale=None and N >= 2 has odd length, its
\* center element is raw index 0 (zero lag) and no element exceeds the center.
C6_AutocorrelationPeaksAtCenter ==
    (Returned /\ Plain /\ x1 = x0 /\ N0 >= 2)
        => /\ Len(result.src) % 2 = 1
           /\ result.src[Center] = 0
           /\ \A r \in DOMAIN result.num :
                 \A i \in DOMAIN result.num[r] :
                    result.num[r][i] <= result.num[r][Center]

C6_Witness ==
    /\ Returned
    /\ Plain
    /\ x1 = x0
    /\ x0.rows = << <<1, 0, -1>> >>
    /\ max_delay = <<2>>
    /\ result.num = << <<-9, 18, 0>> >>

\* C7: with x1 = x0, max_delay omitted, weighting=None and scale=None, the zero-lag
\* value sits at index N-1 (0-based) and is the sum of squares of the DC-removed
\* signal; for [1, 0, -1, 0] the length is 7, output[3] = 2 and the peak is there.
C7_ZeroLagAtIndexNMinusOne ==
    (call = "gcc" /\ Plain /\ x1 = x0 /\ x0.rank = 1 /\ x0static /\ N0 >= 2
        /\ max_delay = <<>>)
        => /\ result.status = "ok"
           /\ result.src[N0] = 0
           /\ result.num[1][N0] = LinCorr(remove_dc(x0.rows[1]), remove_dc(x0.rows[1]), 0)
           /\ x0.rows[1] = <<1, 0, -1, 0>>
                 => /\ Len(result.num[1]) = 7
                    /\ result.num[1][4] = 2 * result.unit
                    /\ \A i \in DOMAIN result.num[1] :
                          i # 4 => result.num[1][i] < result.num[1][4]

\* C8: gcc with a weighting other than None/'PHAT' or a scale other than
\* None/'biased'/'unbiased' fails with a configuration error and returns nothing
\* (the value is never treated as passthrough), in tensorgcc/gcc.py and in
\* gcc/gcc.py alike, on every input the implementation otherwise accepts.
C8_UnknownOptionRejected ==
    (/\ \/ call = "gcc"
        \/ call = "legacy" /\ x0.rank = 2 /\ x0static /\ N0 >= 2
     /\ \/ weighting \notin {"None", "PHAT"}
        \/ scale \notin {"None", "biased", "unbiased"})
        => /\ result.status \in {"ValueError_weighting", "ValueError_scale"}
           /\ result.src = <<>>
           /\ result.num = <<>>

\* C9: with weighting=None and scale=None and N >= 2, output[i] is the direct linear
\* cross-correlation c[i - (len-1)/2] of the DC-removed signals: lags in strictly
\* increasing order, none skipped or repeated.
C9_OutputIsLinearCorrelation ==
    (Returned /\ Plain /\ SameCount /\ N0 >= 2)
        => \A r \in DOMAIN result.num :
              \A i \in DOMAIN result.num[r] :
                 result.num[r][i] =
                    LinCorr(remove_dc(batch_row(x0, r)), remove_dc(batch_row(x1, r)),
                            i - Center)

\* C10: with scale='unbiased' and N >= 2, the denominator array of _scale (length
\* 2L+1) already has the length of the sequence it scales, is positive everywhere
\* and gets no padding, so the padded and the unpadded _scale agree on every
\* sequence _shift produces.
C10_PaddingNeverNeeded ==
    /\ (Returned /\ scale = "unbiased" /\ N0 >= 2)
          => LET len == Len(result.src)
                 den == unbiased_den(N0, scale_L(len))
             IN  /\ Len(den) = len
                 /\ \A j \in DOMAIN den : den[j] > 0
                 /\ \A j \in DOMAIN result.den : result.den[j] > 0
                 /\ result.den = legacy_scale_den(N0, len, "unbiased")
    /\ (call = "legacy" /\ x0.rank = 2 /\ x0static /\ scale = "unbiased"
           /\ weighting \in {"None", "PHAT"} /\ N0 >= 2)
          => result = gcc(x0, x1, x0static, max_delay, weighting, scale)

C10_Witness ==
    /\ Returned
    /\ SameCount
    /\ scale = "unbiased"
    /\ N0 = 3
    /\ max_delay = <<4>>
    /\ result.den = <<1, 1, 2, 3, 2, 1, 1>>
====
